---- MODULE Spec2Model ----
(***************************************************************************)
(* A model of import_bronze.py: the bronze-layer import of NCUA call       *)
(* report files into per-file tables whose columns are created on demand.  *)
(*                                                                         *)
(* Text values are sequences of one-character strings, so that trimming    *)
(* and the empty string are what they are in the program.  None is the     *)
(* one-element sequence <<"None">>, which no text value equals (no         *)
(* character of Alphabet is "None").  Column and table names are strings.  *)
(***************************************************************************)
EXTENDS Integers, Sequences, FiniteSets, TLC

VARIABLES
    pc,          \* position of the run (main / import_quarter / ingest_file)
    imports,     \* quarters whose download has been started so far
    faults,      \* backend failures injected so far
    env,         \* environment of the invocation: [url, key]
    args,        \* positional command-line arguments of the invocation
    quarters,    \* main: the list of quarter strings to import
    qi,          \* main: index of the quarter being imported
    cur,         \* import_quarter: [year, quarter, period, source_url]
    archive,     \* the extracted archive: file name -> file, or Absent
    tmp,         \* temporary directories that exist, each named by the
                 \* number of the import that made it
    fi,          \* import_quarter: index of the source file being ingested
    headers,     \* ingest_file: reader.fieldnames
    rows,        \* ingest_file: the projected rows
    bi,          \* ingest_file: index (from 0) of the next batch
    errors,      \* ingest_file: batch errors counted
    total_rows,  \* import_quarter: rows returned by the files so far
    total,       \* main: rows returned by the quarters so far
    rc,          \* ensure_columns, per caller: [pc, table, hdrs, new_cols, i]
    schema,      \* backend: table -> (column name -> column type)
    cache,       \* backend: table -> columns the API's schema cache knows
    table,       \* backend: table -> sequence of stored rows
    calls,       \* history: backend calls of the current file, in order
    sent,        \* history: batch indexes of the current file submitted
    failed,      \* history: batch indexes of the current file that failed
    ingested,    \* history: table -> headers of the completed ingestions
    seen,        \* history: table -> <<year, quarter>> -> headers ingested
    last,        \* history: table -> the latest completed ingestion
    prev,        \* history: table -> the completed ingestion before last
    probe        \* a function of the program on its own: its input, its
                 \* result (out) and whether it has been applied (done)

vars == <<pc, imports, faults, env, args, quarters, qi, cur, archive, tmp, fi,
          headers, rows, bi, errors, total_rows, total, rc, schema, cache,
          table, calls, sent, failed, ingested, seen, last, prev, probe>>

-----------------------------------------------------------------------------
(* Bounds of the model *)

\* quarters imported (downloads started) in one behaviour, over all the
\* invocations of the program
MaxImports == 2
\* backend failures injected in one behaviour
MaxFaults == 1
\* longest text value of a record in the projection specification
MaxValLen == 2
\* years after the first in the quarter-range specification
MaxYearSpan == 2
\* longest list of rows in the batching specification
MaxRows == 5

-----------------------------------------------------------------------------
(* Values *)

None == <<"None">>

Range(s) == {s[i] : i \in 1..Len(s)}

Min(a, b) == IF a < b THEN a ELSE b

\* Python truthiness of a text-or-None value
Truthy(v) == v # None /\ v # <<>>

\* Python's `a or b`
Or(a, b) == IF Truthy(a) THEN a ELSE b

Whitespace == {" ", "\t"}

RECURSIVE lstrip(_)
lstrip(s) == IF s # <<>> /\ Head(s) \in Whitespace THEN lstrip(Tail(s)) ELSE s

RECURSIVE rstrip(_)
rstrip(s) ==
    IF s # <<>> /\ s[Len(s)] \in Whitespace
    THEN rstrip(SubSeq(s, 1, Len(s) - 1))
    ELSE s

\* str.strip()
strip(s) == rstrip(lstrip(s))

\* dict.get(key): None when the key is absent
Get(record, key) == IF key \in DOMAIN record THEN record[key] ELSE None

\* dict.get(key, default)
GetOr(record, key, default) ==
    IF key \in DOMAIN record THEN record[key] ELSE default

-----------------------------------------------------------------------------
(* Config *)

NCUA_BASE_URL == "https://www.ncua.gov/files/publications/analysis"

QUARTER_MONTH == [q \in 1..4 |->
    CASE q = 1 -> "03" [] q = 2 -> "06" [] q = 3 -> "09" [] q = 4 -> "12"]

\* The first three of the program's eighteen pairings, in dict order.
FileOrder == <<"FOICU.txt", "FS220.txt", "FS220A.txt">>

SOURCE_FILES == [f \in Range(FileOrder) |->
    CASE f = "FOICU.txt" -> "bronze_foicu"
      [] f = "FS220.txt" -> "bronze_fs220"
      [] f = "FS220A.txt" -> "bronze_fs220a"]

Tables == {SOURCE_FILES[f] : f \in DOMAIN SOURCE_FILES}

ALLOWED_PROJECTS == {"jhlkpogfkytfedqupytv", "ckpihayqxwplgxdmijyp"}

\* 200 in the program; 2 here, so that a three-row file makes two batches.
BATCH_SIZE == 2

KEY_COLUMNS == {"id", "cu_number", "cycle_date", "year", "quarter", "period",
                "source_url", "imported_at"}

\* faulty variant: a conflict target that also names cycle_date
OnConflictMoreColumns == {"cu_number", "year", "quarter", "cycle_date"}

\* faulty variant: a conflict target without the period
OnConflictInstitutionOnly == {"cu_number"}

\* on_conflict="cu_number,year,quarter"
OnConflict == {"cu_number", "year", "quarter"}

-----------------------------------------------------------------------------
(* Quarter utilities *)

DigitChars == <<"0", "1", "2", "3", "4", "5", "6", "7", "8", "9">>

IsDigit(c) == c \in Range(DigitChars)

DigitVal(c) == (CHOOSE d \in 1..10 : DigitChars[d] = c) - 1

RECURSIVE IntStr(_)
\* f"{n}" for n >= 0
IntStr(n) ==
    IF n < 10 THEN <<DigitChars[n + 1]>>
    ELSE IntStr(n \div 10) \o <<DigitChars[(n % 10) + 1]>>

\* f"{y}-Q{q}"
QuarterStr(y, q) == IntStr(y) \o <<"-", "Q">> \o IntStr(q)

\* re.match(r"^(\d{4})-Q([1-4])$", s)
QuarterMatches(s) ==
    /\ Len(s) = 7
    /\ \A i \in 1..4 : IsDigit(s[i])
    /\ s[5] = "-"
    /\ s[6] = "Q"
    /\ s[7] \in {"1", "2", "3", "4"}

\* faulty variant: the year is taken from its last two digits
parse_quarterTwoDigitYear(s) ==
    <<10 * DigitVal(s[3]) + DigitVal(s[4]), DigitVal(s[7])>>

\* parse_quarter, where the string matches: (year, quarter)
parse_quarter(s) ==
    <<1000 * DigitVal(s[1]) + 100 * DigitVal(s[2]) + 10 * DigitVal(s[3])
        + DigitVal(s[4]),
      DigitVal(s[7])>>

quarter_url(year, quarter) ==
    <<NCUA_BASE_URL, "/call-report-data-">> \o IntStr(year)
        \o <<"-", QUARTER_MONTH[quarter], ".zip">>

\* faulty variant: the comparison is strict
TupleLess(y, q, ey, eq) == y < ey \/ (y = ey /\ q < eq)

\* (y, q) <= (ey, eq) on Python tuples
TupleLeq(y, q, ey, eq) == y < ey \/ (y = ey /\ q <= eq)

RECURSIVE QuarterLoop(_, _, _, _)
\* the while loop of quarter_range, from (y, q)
QuarterLoop(y, q, ey, eq) ==
    IF TupleLeq(y, q, ey, eq)
    THEN <<QuarterStr(y, q)>>
            \o (IF q + 1 > 4 THEN QuarterLoop(y + 1, 1, ey, eq)
                ELSE QuarterLoop(y, q + 1, ey, eq))
    ELSE <<>>

\* quarter_range for two strings that match; <<>> is the rejected range
quarter_range(start, end) ==
    QuarterLoop(parse_quarter(start)[1], parse_quarter(start)[2],
                parse_quarter(end)[1], parse_quarter(end)[2])

-----------------------------------------------------------------------------
(* Row projection (the loop body of ingest_file) *)

\* (record.get("CU_NUMBER") or record.get("CU_Number") or "").strip()
cu_number_of(record) ==
    strip(Or(Or(Get(record, "CU_NUMBER"), Get(record, "CU_Number")), <<>>))

\* (record.get("CYCLE_DATE") or record.get("Cycle_Date") or "").strip() or None
cycle_date_of(record) ==
    Or(strip(Or(Or(Get(record, "CYCLE_DATE"), Get(record, "Cycle_Date")), <<>>)),
       None)

\* if not cu_number: continue
Kept(record) == cu_number_of(record) # <<>>

\* faulty variant: the value is trimmed on its way into the row
PassValueStripped(value) ==
    IF value = None \/ strip(value) = <<>> THEN None ELSE strip(value)

\* faulty variant: the empty string is kept
PassValueKeepEmpty(value) == value

\* value if value != "" else None
PassValue(value) == IF value # <<>> THEN value ELSE None

MetaColumns ==
    {"cu_number", "cycle_date", "year", "quarter", "period", "source_url"}

\* faulty variant: every header is spread, the reserved names too
SpreadColumnsAll(hdrs) == Range(hdrs)

\* the headers the loop `for header in headers` spreads into the row
SpreadColumns(hdrs) == {h \in Range(hdrs) : h \notin KEY_COLUMNS}

\* The row built for a kept record: the dict literal, then the spread loop,
\* whose assignments come later and so win over the literal's.
ProjectRecord(hdrs, record, year, quarter, period, source_url) ==
    [c \in MetaColumns \cup SpreadColumns(hdrs) |->
        IF c \in SpreadColumns(hdrs) THEN PassValue(GetOr(record, c, <<>>))
        ELSE CASE c = "cu_number" -> cu_number_of(record)
               [] c = "cycle_date" -> cycle_date_of(record)
               [] c = "year" -> year
               [] c = "quarter" -> quarter
               [] c = "period" -> period
               [] c = "source_url" -> source_url]

\* rows, after the loop `for record in reader`
ProjectRows(hdrs, records, year, quarter, period, source_url) ==
    LET kept == SelectSeq(records, Kept)
    IN  [i \in 1..Len(kept) |->
            ProjectRecord(hdrs, kept[i], year, quarter, period, source_url)]

-----------------------------------------------------------------------------
(* ensure_columns *)

\* faulty variant: the last of several missing headers is left out
NewColsSkipLast(hdrs, existing) ==
    LET all == SelectSeq(hdrs, LAMBDA h : h \notin existing /\ h \notin KEY_COLUMNS)
    IN  IF Len(all) > 1 THEN SubSeq(all, 1, Len(all) - 1) ELSE all

\* new_cols = [h for h in file_headers if h not in existing and h not in KEY_COLUMNS]
NewCols(hdrs, existing) ==
    SelectSeq(hdrs, LAMBDA h : h \notin existing /\ h \notin KEY_COLUMNS)

-----------------------------------------------------------------------------
(* Batches *)

\* faulty variant: only the full batches are counted
NumBatchesFloor(rs) == Len(rs) \div BATCH_SIZE

\* the turns of `for i in range(0, len(rows), BATCH_SIZE)`
NumBatches(rs) == (Len(rs) + BATCH_SIZE - 1) \div BATCH_SIZE

\* rows[i : i + BATCH_SIZE] for i = b * BATCH_SIZE
Batch(rs, b) ==
    SubSeq(rs, b * BATCH_SIZE + 1, Min(Len(rs), (b + 1) * BATCH_SIZE))

-----------------------------------------------------------------------------
(* The storage backend: the tables, their columns and the API in front of  *)
(* them.  The tables exist beforehand with the reserved columns.           *)

BaseSchema == [c \in KEY_COLUMNS |->
    CASE c = "id" -> "bigint"
      [] c \in {"year", "quarter"} -> "integer"
      [] c = "imported_at" -> "timestamptz"
      [] OTHER -> "text"]

\* add_text_column: a nullable text column, added if absent
AddTextColumn(sch, col) ==
    IF col \in DOMAIN sch THEN sch
    ELSE [c \in DOMAIN sch \cup {col} |-> IF c = col THEN "text" ELSE sch[c]]

\* the stored rows after the column is added: null in the new column
WidenRows(stored, col) ==
    [i \in 1..Len(stored) |->
        IF col \in DOMAIN stored[i] THEN stored[i]
        ELSE [c \in DOMAIN stored[i] \cup {col} |->
                IF c = col THEN None ELSE stored[i][c]]]

Now == <<"now">>

\* the stored rows that conflict with row r on the conflict target
Conflicts(stored, r) ==
    {i \in 1..Len(stored) : \A k \in OnConflict : stored[i][k] = r[k]}

\* INSERT ... ON CONFLICT (cu_number, year, quarter) DO UPDATE for one row
UpsertRow(stored, r, cols) ==
    IF Conflicts(stored, r) # {}
    THEN LET i == CHOOSE j \in Conflicts(stored, r) :
                    \A k \in Conflicts(stored, r) : j <= k
         IN  [stored EXCEPT ![i] =
                [c \in DOMAIN stored[i] |->
                    IF c \in DOMAIN r THEN r[c] ELSE stored[i][c]]]
    ELSE Append(stored,
            [c \in cols |->
                IF c \in DOMAIN r THEN r[c]
                ELSE IF c = "id" THEN Len(stored) + 1
                ELSE IF c = "imported_at" THEN Now
                ELSE None])

RECURSIVE UpsertBatch(_, _, _)
\* one batch, row by row in the batch's order
UpsertBatch(stored, batch, cols) ==
    IF batch = <<>> THEN stored
    ELSE UpsertBatch(UpsertRow(stored, Head(batch), cols), Tail(batch), cols)

\* a plain INSERT of one batch: every row is added
InsertBatch(stored, batch, cols) ==
    IF batch = <<>> THEN stored
    ELSE stored \o [i \in 1..Len(batch) |->
            [c \in cols |->
                IF c \in DOMAIN batch[i] THEN batch[i][c]
                ELSE IF c = "id" THEN Len(stored) + i
                ELSE IF c = "imported_at" THEN Now
                ELSE None]]

\* faulty variant: insert() in place of upsert()
WriteBatchPlainInsert(stored, batch, cols) == InsertBatch(stored, batch, cols)

\* supabase.table(table_name).upsert(batch, on_conflict=...).execute()
WriteBatch(stored, batch, cols) == UpsertBatch(stored, batch, cols)

\* the API rejects a row that names a column its schema cache does not know
Writable(batch, known) == \A i \in 1..Len(batch) : DOMAIN batch[i] \subseteq known

-----------------------------------------------------------------------------
(* What the environment supplies: configuration, arguments, archives *)

GoodEnv == [url |-> <<"https://", "jhlkpogfkytfedqupytv", ".supabase.co">>,
            key |-> <<"k">>]

NoEnv == [url |-> <<>>, key |-> <<>>]

Envs == {GoodEnv,
         [url |-> <<"https://", "someotherproject", ".supabase.co">>,
          key |-> <<"k">>],
         [url |-> GoodEnv.url, key |-> <<>>]}

\* faulty variant: the host's domain is checked, not the project
AllowedAnyProject(url) == ".supabase.co" \in Range(url)

\* any(ref in url for ref in ALLOWED_PROJECTS), the URL given by its parts
Allowed(url) == \E ref \in ALLOWED_PROJECTS : ref \in Range(url)

Q4 == <<"2", "0", "2", "4", "-", "Q", "4">>

Q1 == <<"2", "0", "2", "5", "-", "Q", "1">>

BadQuarter == <<"2", "0", "2", "5", "-", "Q", "5">>

ArgChoices == {<<Q4>>, <<Q1>>, <<Q4, Q1>>, <<Q1, Q4>>, <<BadQuarter>>, <<>>}

\* a data row of a file: header -> text
Rec(hdrs, vals) ==
    [h \in Range(hdrs) |-> vals[CHOOSE i \in 1..Len(hdrs) : hdrs[i] = h]]

Absent == [present |-> FALSE, headers |-> <<>>, records |-> <<>>]

File(hdrs, data) ==
    [present |-> TRUE, headers |-> hdrs,
     records |-> [i \in 1..Len(data) |-> Rec(hdrs, data[i])]]

Day == <<"d">>

\* two institutions and a record without an identifier: one batch
FileA ==
    File(<<"CU_NUMBER", "CYCLE_DATE", "ACCT_010">>,
         << <<<<"1">>, Day, <<"1", "0">>>>,
            <<<<>>, Day, <<"5">>>>,
            <<<<"2", " ">>, Day, <<>>>> >>)

\* a new header, and institution 1 twice in the first batch: two batches
FileB ==
    File(<<"CU_NUMBER", "CYCLE_DATE", "ACCT_010", "NEW_FIELD">>,
         << <<<<"1">>, Day, <<"3", "0">>, <<"7">>>>,
            <<<<"1">>, <<>>, <<"4", "0">>, <<>>>>,
            <<<<"2">>, Day, <<" ", "9">>, <<"8">>>> >>)

\* the other header variants, a reserved name among the headers, and
\* institution 1 in both batches
FileC ==
    File(<<"CU_Number", "Cycle_Date", "year", "ACCT_020">>,
         << <<<<"1">>, Day, <<"1", "9">>, <<"6">>>>,
            <<<<"2">>, Day, <<"1", "9">>, <<>>>>,
            <<<<"1">>, Day, <<"1", "9">>, <<"0">>>> >>)

\* one institution and one account: one batch of one row
FileD ==
    File(<<"CU_NUMBER", "ACCT_730">>, << <<<<"1">>, <<"2">>>> >>)

Archives ==
    [Range(FileOrder) -> {FileA, FileB, FileC, FileD, Absent}]

\* what the archive of a period may hold in a run of main
ArchiveChoices ==
    {a \in Archives :
        /\ a["FOICU.txt"] \in {FileA, FileB, Absent}
        /\ a["FS220.txt"] \in {FileC, Absent}
        /\ a["FS220A.txt"] = Absent}

\* what it may hold where one period is imported on its own
QuarterArchiveChoices ==
    {a \in Archives :
        /\ a["FOICU.txt"] \in {FileA, FileB, Absent}
        /\ a["FS220.txt"] \in {FileC, Absent}
        /\ a["FS220A.txt"] \in {FileD, Absent}}

NoArchive == [f \in Range(FileOrder) |-> Absent]

NoCur == [year |-> 0, quarter |-> 0, period |-> <<>>, source_url |-> <<>>]

Procs == {"main", "other"}

Idle == [pc |-> "idle", table |-> "", hdrs |-> <<>>, new_cols |-> <<>>, i |-> 0]

NoIngest == [file |-> Absent, year |-> 0, quarter |-> 0, ok |-> FALSE,
             stored |-> <<>>]

NoProbe == [headers |-> <<>>, record |-> <<>>, out |-> <<>>, done |-> FALSE]

-----------------------------------------------------------------------------
(* Initial state: nothing started, the tables created with the reserved    *)
(* columns and no row.                                                     *)

Init ==
    /\ pc = "idle"
    /\ imports = 0
    /\ faults = 0
    /\ env = NoEnv
    /\ args = <<>>
    /\ quarters = <<>>
    /\ qi = 0
    /\ cur = NoCur
    /\ archive = NoArchive
    /\ tmp = {}
    /\ fi = 0
    /\ headers = <<>>
    /\ rows = <<>>
    /\ bi = 0
    /\ errors = 0
    /\ total_rows = 0
    /\ total = 0
    /\ rc = [p \in Procs |-> Idle]
    /\ schema = [t \in Tables |-> BaseSchema]
    /\ cache = [t \in Tables |-> DOMAIN BaseSchema]
    /\ table = [t \in Tables |-> <<>>]
    /\ calls = <<>>
    /\ sent = <<>>
    /\ failed = {}
    /\ ingested = [t \in Tables |-> {}]
    /\ seen = [t \in Tables |-> {}]
    /\ last = [t \in Tables |-> NoIngest]
    /\ prev = [t \in Tables |-> NoIngest]
    /\ probe = NoProbe

backend == <<schema, cache, table>>

history == <<calls, sent, failed, ingested, seen, last, prev>>

fileLocals == <<headers, rows, bi, errors>>

quarterLocals == <<cur, archive, fi, total_rows>>

mainLocals == <<env, args, quarters, qi, total>>

-----------------------------------------------------------------------------
(* main *)

Stopped == pc \in {"idle", "done", "exit", "crashed"}

\* The program is invoked (again): nothing of an earlier invocation is left
\* but the backend and the temporary directories it did not remove.
StartRun ==
    /\ Stopped
    /\ pc' = "load_env"
    /\ env' = NoEnv /\ args' = <<>>
    /\ quarters' = <<>> /\ qi' = 0 /\ total' = 0
    /\ cur' = NoCur /\ archive' = NoArchive /\ fi' = 0 /\ total_rows' = 0
    /\ headers' = <<>> /\ rows' = <<>> /\ bi' = 0 /\ errors' = 0
    /\ calls' = <<>> /\ sent' = <<>> /\ failed' = {}
    /\ UNCHANGED <<imports, faults, tmp, rc, backend, ingested, seen, last, prev,
                   probe>>

\* load_env: the URL and the key are read from the environment; both must be
\* set and the URL on the allow list
LoadEnv ==
    /\ pc = "load_env"
    /\ \E e \in Envs :
          /\ env' = e
          /\ pc' = IF e.url = <<>> \/ e.key = <<>> THEN "exit"
                   ELSE IF ~Allowed(e.url) THEN "exit"
                   ELSE "args"
    /\ UNCHANGED <<imports, faults, args, quarters, qi, total, quarterLocals,
                   tmp, fileLocals, rc, backend, history, probe>>

\* main, lines 324-334: one quarter, or a range of two
ParseArgs ==
    /\ pc = "args"
    /\ \E a \in ArgChoices :
          /\ imports + Len(a) <= MaxImports
          /\ args' = a
          /\ IF Len(a) = 1
             THEN quarters' = a /\ qi' = 1 /\ pc' = "loop"
             ELSE IF Len(a) = 2
                      /\ QuarterMatches(a[1]) /\ QuarterMatches(a[2])
                      /\ quarter_range(a[1], a[2]) # <<>>
                  THEN /\ quarters' = quarter_range(a[1], a[2])
                       /\ qi' = 1
                       /\ pc' = "loop"
                  ELSE quarters' = <<>> /\ qi' = 0 /\ pc' = "exit"
    /\ UNCHANGED <<imports, faults, env, total, quarterLocals, tmp,
                   fileLocals, rc, backend, history, probe>>

\* main, lines 337-342: the next quarter, or the summary
NextQuarter ==
    /\ pc = "loop"
    /\ pc' = IF qi <= Len(quarters) THEN "import_quarter" ELSE "done"
    /\ UNCHANGED <<imports, faults, mainLocals, quarterLocals, tmp, fileLocals, rc,
                   backend, history, probe>>

-----------------------------------------------------------------------------
(* import_quarter *)

\* parse_quarter rejects the string: sys.exit
ParseQuarterFails ==
    /\ pc = "import_quarter"
    /\ ~QuarterMatches(quarters[qi])
    /\ pc' = "exit"
    /\ UNCHANGED <<imports, faults, mainLocals, quarterLocals, tmp, fileLocals, rc,
                   backend, history, probe>>

\* import_quarter, lines 285-293: the archive, one of choices, is downloaded
\* and extracted into a new temporary directory; FOICU.txt must be in it.
DownloadAndExtractFrom(choices) ==
    /\ pc = "import_quarter"
    /\ QuarterMatches(quarters[qi])
    /\ imports < MaxImports
    /\ imports' = imports + 1
    /\ LET yq == parse_quarter(quarters[qi])
       IN  cur' = [year |-> yq[1], quarter |-> yq[2], period |-> quarters[qi],
                   source_url |-> quarter_url(yq[1], yq[2])]
    /\ tmp' = tmp \cup {imports'}
    /\ \E a \in choices :
          /\ archive' = a
          /\ pc' = IF a["FOICU.txt"].present THEN "file" ELSE "exit"
    /\ fi' = 1
    /\ total_rows' = 0
    /\ UNCHANGED <<faults, mainLocals, fileLocals, rc, backend, history,
                   probe>>

DownloadAndExtract == DownloadAndExtractFrom(ArchiveChoices)

\* urlretrieve or ZipFile raises, after mkdtemp and outside the try
DownloadRaises ==
    /\ pc = "import_quarter"
    /\ QuarterMatches(quarters[qi])
    /\ imports < MaxImports
    /\ imports' = imports + 1
    /\ faults < MaxFaults
    /\ faults' = faults + 1
    /\ tmp' = tmp \cup {imports'}
    /\ pc' = "crashed"
    /\ UNCHANGED <<mainLocals, quarterLocals, fileLocals, rc, backend,
                   history, probe>>

CurFile == FileOrder[fi]

CurTable == SOURCE_FILES[CurFile]

\* import_quarter, lines 301-305: after the last file, the finally clause
\* removes the temporary directory and the total is returned to main.
QuarterDone ==
    /\ pc = "file"
    /\ fi > Len(FileOrder)
    /\ tmp' = tmp \ {imports}
    /\ total' = total + total_rows
    /\ qi' = qi + 1
    /\ pc' = "loop"
    /\ UNCHANGED <<imports, faults, env, args, quarters, quarterLocals, fileLocals,
                   rc, backend, history, probe>>

-----------------------------------------------------------------------------
(* ingest_file *)

\* faulty variant: a file that is not found ends the loop over the files
IngestNotFoundEndsLoop ==
    /\ pc = "file"
    /\ fi <= Len(FileOrder)
    /\ ~archive[CurFile].present
    /\ fi' = Len(FileOrder) + 1
    /\ UNCHANGED <<pc, imports, faults, mainLocals, cur, archive, total_rows, tmp,
                   fileLocals, rc, backend, history, probe>>

\* lines 228-230: the file is not in the archive
IngestNotFound ==
    /\ pc = "file"
    /\ fi <= Len(FileOrder)
    /\ ~archive[CurFile].present
    /\ fi' = fi + 1
    /\ UNCHANGED <<pc, imports, faults, mainLocals, cur, archive, total_rows, tmp,
                   fileLocals, rc, backend, history, probe>>

\* lines 232-237: the header is read and ensure_columns is called
IngestOpen ==
    /\ pc = "file"
    /\ fi <= Len(FileOrder)
    /\ archive[CurFile].present
    /\ headers' = archive[CurFile].headers
    /\ rows' = <<>> /\ bi' = 0 /\ errors' = 0
    /\ rc' = [rc EXCEPT !["main"] =
                [pc |-> "list", table |-> CurTable,
                 hdrs |-> archive[CurFile].headers, new_cols |-> <<>>, i |-> 0]]
    /\ calls' = <<>> /\ sent' = <<>> /\ failed' = {}
    /\ seen' = [seen EXCEPT ![CurTable] =
                  @ \cup {<<cur.year, cur.quarter, h>> : h \in Range(headers')}]
    /\ pc' = "ensure"
    /\ UNCHANGED <<imports, faults, mainLocals, quarterLocals, tmp, backend,
                   ingested, last, prev, probe>>

\* An exception leaves ingest_file and import_quarter, whose finally clause
\* removes the temporary directory, and ends the run with a traceback.
Unwind ==
    /\ pc' = "crashed"
    /\ tmp' = tmp \ {imports}
    /\ prev' = [prev EXCEPT ![CurTable] = last[CurTable]]
    /\ last' = [last EXCEPT ![CurTable] =
                  [file |-> archive[CurFile], year |-> cur.year,
                   quarter |-> cur.quarter, ok |-> FALSE,
                   stored |-> table[CurTable]]]

-----------------------------------------------------------------------------
(* ensure_columns, for caller p *)

\* faulty variant: the cache is reloaded although nothing is missing
AfterListAlwaysReload(new_cols) == "reload"

\* if not new_cols: return
AfterList(new_cols) == IF new_cols = <<>> THEN "returned" ELSE "add"

\* faulty variant: return after the last add_text_column, without the reload
AfterAddNoReload(i, n) == IF i < n THEN "add" ELSE "returned"

\* faulty variant: the reload follows the first add_text_column
AfterAddReloadEarly(i, n) == "reload"

\* for col in new_cols: ...; then reload_schema_cache
AfterAdd(i, n) == IF i < n THEN "add" ELSE "reload"

Called(p, what) == calls' = IF p = "main" THEN Append(calls, what) ELSE calls

\* lines 199-205: the table's columns are listed and new_cols computed
GetColumnNames(p) ==
    /\ rc[p].pc = "list"
    /\ LET existing == DOMAIN schema[rc[p].table]
           new_cols == NewCols(rc[p].hdrs, existing)
       IN  rc' = [rc EXCEPT ![p].new_cols = new_cols,
                            ![p].i = 1,
                            ![p].pc = AfterList(new_cols)]
    /\ Called(p, "list")
    /\ UNCHANGED <<pc, imports, faults, mainLocals, quarterLocals, tmp, fileLocals,
                   backend, sent, failed, ingested, seen, last, prev, probe>>

\* lines 208-212: one add_text_column call
AddColumn(p) ==
    /\ rc[p].pc = "add"
    /\ LET t == rc[p].table
           col == rc[p].new_cols[rc[p].i]
       IN  /\ schema' = [schema EXCEPT ![t] = AddTextColumn(@, col)]
           /\ table' = [table EXCEPT ![t] = WidenRows(@, col)]
    /\ rc' = [rc EXCEPT ![p].i = @ + 1,
                        ![p].pc = AfterAdd(rc[p].i, Len(rc[p].new_cols))]
    /\ Called(p, "add")
    /\ UNCHANGED <<pc, imports, faults, mainLocals, quarterLocals, tmp, fileLocals,
                   cache, sent, failed, ingested, seen, last, prev, probe>>

\* line 215: reload_schema_cache
ReloadSchemaCache(p) ==
    /\ rc[p].pc = "reload"
    /\ cache' = [t \in Tables |-> DOMAIN schema[t]]
    /\ rc' = [rc EXCEPT ![p].pc = "sleep"]
    /\ Called(p, "reload")
    /\ UNCHANGED <<pc, imports, faults, mainLocals, quarterLocals, tmp, fileLocals,
                   schema, table, sent, failed, ingested, seen, last, prev,
                   probe>>

\* line 216: time.sleep(1), then the return
Sleep(p) ==
    /\ rc[p].pc = "sleep"
    /\ rc' = [rc EXCEPT ![p].pc = "returned"]
    /\ UNCHANGED <<pc, imports, faults, mainLocals, quarterLocals, tmp, fileLocals,
                   backend, history, probe>>

\* execute() raises when the backend rejects a call of ensure_columns
\* (get_column_names, add_text_column or reload_schema_cache).
RpcRaises(p) ==
    /\ rc[p].pc \in {"list", "add", "reload"}
    /\ faults < MaxFaults
    /\ faults' = faults + 1
    /\ rc' = [rc EXCEPT ![p].pc = "raised"]
    /\ calls' = IF p = "main" THEN calls \o <<rc[p].pc, "raise">> ELSE calls
    /\ UNCHANGED <<pc, imports, mainLocals, quarterLocals, tmp, fileLocals,
                   backend, sent, failed, ingested, seen, last, prev, probe>>

-----------------------------------------------------------------------------
(* ingest_file, after ensure_columns *)

\* lines 239-260: ensure_columns returned; the records are projected
BuildRows ==
    /\ pc = "ensure"
    /\ rc["main"].pc = "returned"
    /\ rows' = ProjectRows(headers, archive[CurFile].records, cur.year,
                           cur.quarter, cur.period, cur.source_url)
    /\ bi' = 0
    /\ errors' = 0
    /\ rc' = [rc EXCEPT !["main"].pc = "idle"]
    /\ pc' = "upsert"
    /\ UNCHANGED <<imports, faults, mainLocals, quarterLocals, tmp, headers,
                   backend, history, probe>>

\* ensure_columns raised: nothing in ingest_file or import_quarter catches it
EnsureRaised ==
    /\ pc = "ensure"
    /\ rc["main"].pc = "raised"
    /\ rc' = [rc EXCEPT !["main"].pc = "idle"]
    /\ Unwind
    /\ UNCHANGED <<imports, faults, mainLocals, quarterLocals, fileLocals, backend,
                   calls, sent, failed, ingested, seen, probe>>

\* lines 264-268: a batch is written
UpsertOk ==
    /\ pc = "upsert"
    /\ bi < NumBatches(rows)
    /\ Writable(Batch(rows, bi), cache[CurTable])
    /\ table' = [table EXCEPT ![CurTable] =
                    WriteBatch(@, Batch(rows, bi), DOMAIN schema[CurTable])]
    /\ bi' = bi + 1
    /\ calls' = Append(calls, "upsert")
    /\ sent' = Append(sent, bi)
    /\ UNCHANGED <<pc, imports, faults, mainLocals, quarterLocals, tmp, headers,
                   rows, errors, rc, schema, cache, failed, ingested, seen,
                   last, prev, probe>>

\* a batch fails when the API does not know one of its columns, or when the
\* backend rejects it
BatchFails ==
    \/ ~Writable(Batch(rows, bi), cache[CurTable]) /\ faults' = faults
    \/ faults < MaxFaults /\ faults' = faults + 1

\* lines 269-271: the failure comes back in the response and is counted
UpsertErrorResponse ==
    /\ pc = "upsert"
    /\ bi < NumBatches(rows)
    /\ BatchFails
    /\ errors' = errors + 1
    /\ bi' = bi + 1
    /\ calls' = Append(calls, "upsert")
    /\ sent' = Append(sent, bi)
    /\ failed' = failed \cup {bi}
    /\ UNCHANGED <<pc, imports, mainLocals, quarterLocals, tmp, headers, rows, rc,
                   backend, ingested, seen, last, prev, probe>>

\* the failure is raised by execute(): nothing catches it
UpsertRaises ==
    /\ pc = "upsert"
    /\ bi < NumBatches(rows)
    /\ BatchFails
    /\ calls' = calls \o <<"upsert", "raise">>
    /\ sent' = Append(sent, bi)
    /\ failed' = failed \cup {bi}
    /\ Unwind
    /\ UNCHANGED <<imports, mainLocals, quarterLocals, fileLocals, rc, backend,
                   ingested, seen, probe>>

\* lines 273-276 and 298: len(rows) is returned and added to total_rows
IngestReturn ==
    /\ pc = "upsert"
    /\ bi >= NumBatches(rows)
    /\ total_rows' = total_rows + Len(rows)
    /\ fi' = fi + 1
    /\ pc' = "file"
    /\ ingested' = [ingested EXCEPT ![CurTable] = @ \cup Range(headers)]
    /\ prev' = [prev EXCEPT ![CurTable] = last[CurTable]]
    /\ last' = [last EXCEPT ![CurTable] =
                  [file |-> archive[CurFile], year |-> cur.year,
                   quarter |-> cur.quarter, ok |-> errors = 0,
                   stored |-> table[CurTable]]]
    /\ UNCHANGED <<imports, faults, mainLocals, cur, archive, tmp, fileLocals, rc,
                   backend, calls, sent, failed, seen, probe>>

-----------------------------------------------------------------------------
(* The run *)

Next ==
    \/ StartRun
    \/ LoadEnv
    \/ ParseArgs
    \/ NextQuarter
    \/ ParseQuarterFails
    \/ DownloadAndExtract
    \/ DownloadRaises
    \/ QuarterDone
    \/ IngestNotFound
    \/ IngestOpen
    \/ GetColumnNames("main")
    \/ AddColumn("main")
    \/ ReloadSchemaCache("main")
    \/ Sleep("main")
    \/ RpcRaises("main")
    \/ BuildRows
    \/ EnsureRaised
    \/ UpsertOk
    \/ UpsertErrorResponse
    \/ UpsertRaises
    \/ IngestReturn

Spec == Init /\ [][Next]_vars

-----------------------------------------------------------------------------
(* Row projection on its own: one record of a bounded set is projected     *)
(* by the loop of ingest_file.                                             *)

Alphabet == {" ", "7"}

TextUpTo(n) == UNION {[1..k -> Alphabet] : k \in 0..n}

\* a field holds a text, or None where the line is shorter than the header
ProbeVals == TextUpTo(MaxValLen) \cup {None}

ProbeHeaders ==
    {<<"CU_NUMBER", "CU_Number", "ACCT_010">>,
     <<"CU_Number", "CYCLE_DATE", "period">>,
     <<"ACCT_010", "Cycle_Date", "cu_number">>}

ProbeCur ==
    [year |-> 2025, quarter |-> 1, period |-> Q1,
     source_url |-> quarter_url(2025, 1)]

InitProject ==
    /\ pc = "project"
    /\ imports = 0
    /\ faults = 0
    /\ env = NoEnv
    /\ args = <<>>
    /\ quarters = <<>>
    /\ qi = 0
    /\ cur = ProbeCur
    /\ archive = NoArchive
    /\ tmp = {}
    /\ fi = 0
    /\ headers = <<>>
    /\ rows = <<>>
    /\ bi = 0
    /\ errors = 0
    /\ total_rows = 0
    /\ total = 0
    /\ rc = [p \in Procs |-> Idle]
    /\ schema = [t \in Tables |-> BaseSchema]
    /\ cache = [t \in Tables |-> DOMAIN BaseSchema]
    /\ table = [t \in Tables |-> <<>>]
    /\ calls = <<>>
    /\ sent = <<>>
    /\ failed = {}
    /\ ingested = [t \in Tables |-> {}]
    /\ seen = [t \in Tables |-> {}]
    /\ last = [t \in Tables |-> NoIngest]
    /\ prev = [t \in Tables |-> NoIngest]
    /\ \E h \in ProbeHeaders :
          \E r \in [Range(h) -> ProbeVals] :
              probe = [headers |-> h, record |-> r, out |-> <<>>,
                       done |-> FALSE]

\* lines 239-260 on a reader that yields the one record
ProjectProbe ==
    /\ pc = "project"
    /\ ~probe.done
    /\ probe' = [probe EXCEPT
                    !.out = ProjectRows(probe.headers, <<probe.record>>,
                                        cur.year, cur.quarter, cur.period,
                                        cur.source_url),
                    !.done = TRUE]
    /\ UNCHANGED <<pc, imports, faults, mainLocals, quarterLocals, tmp, fileLocals,
                   rc, backend, history>>

NextProject == ProjectProbe

SpecProject == InitProject /\ [][NextProject]_vars

-----------------------------------------------------------------------------
(* Two runs reconcile the same table at once: ensure_columns of this run   *)
(* ("main") and of another pipeline run ("other"), step by step.           *)

RaceTable == "bronze_foicu"

RaceHeaders ==
    {<<"CU_NUMBER", "CYCLE_DATE", "ACCT_010">>,
     <<"CU_NUMBER", "ACCT_010", "NEW_FIELD">>,
     <<"year", "NEW_FIELD", "ACCT_020", "ACCT_030">>}

\* the table as an earlier ingestion left it
RaceSchema == AddTextColumn(BaseSchema, "ACCT_010")

InitRace ==
    /\ pc = "race"
    /\ imports = 0
    /\ faults = 0
    /\ env = NoEnv
    /\ args = <<>>
    /\ quarters = <<>>
    /\ qi = 0
    /\ cur = NoCur
    /\ archive = NoArchive
    /\ tmp = {}
    /\ fi = 0
    /\ headers = <<>>
    /\ rows = <<>>
    /\ bi = 0
    /\ errors = 0
    /\ total_rows = 0
    /\ total = 0
    /\ \E h1 \in RaceHeaders, h2 \in RaceHeaders :
          rc = [p \in Procs |->
                  [pc |-> "list", table |-> RaceTable,
                   hdrs |-> IF p = "main" THEN h1 ELSE h2,
                   new_cols |-> <<>>, i |-> 0]]
    /\ schema = [t \in Tables |-> IF t = RaceTable THEN RaceSchema ELSE BaseSchema]
    /\ cache = [t \in Tables |-> DOMAIN schema[t]]
    /\ table = [t \in Tables |-> <<>>]
    /\ calls = <<>>
    /\ sent = <<>>
    /\ failed = {}
    /\ ingested = [t \in Tables |-> {}]
    /\ seen = [t \in Tables |-> {}]
    /\ last = [t \in Tables |-> NoIngest]
    /\ prev = [t \in Tables |-> NoIngest]
    /\ probe = NoProbe

NextRace ==
    \E p \in Procs :
        \/ GetColumnNames(p)
        \/ AddColumn(p)
        \/ ReloadSchemaCache(p)
        \/ Sleep(p)

SpecRace == InitRace /\ [][NextRace]_vars

-----------------------------------------------------------------------------
(* One period imported on its own: import_quarter("2025-Q1") from its call *)
(* to its return, on an archive that holds any of the three files.         *)

InitImport ==
    /\ pc = "import_quarter"
    /\ imports = 0
    /\ faults = 0
    /\ env = GoodEnv
    /\ args = <<Q1>>
    /\ quarters = <<Q1>>
    /\ qi = 1
    /\ cur = NoCur
    /\ archive = NoArchive
    /\ tmp = {}
    /\ fi = 0
    /\ headers = <<>>
    /\ rows = <<>>
    /\ bi = 0
    /\ errors = 0
    /\ total_rows = 0
    /\ total = 0
    /\ rc = [p \in Procs |-> Idle]
    /\ schema = [t \in Tables |-> BaseSchema]
    /\ cache = [t \in Tables |-> DOMAIN BaseSchema]
    /\ table = [t \in Tables |-> <<>>]
    /\ calls = <<>>
    /\ sent = <<>>
    /\ failed = {}
    /\ ingested = [t \in Tables |-> {}]
    /\ seen = [t \in Tables |-> {}]
    /\ last = [t \in Tables |-> NoIngest]
    /\ prev = [t \in Tables |-> NoIngest]
    /\ probe = NoProbe

NextImport ==
    \/ DownloadAndExtractFrom(QuarterArchiveChoices)
    \/ DownloadRaises
    \/ QuarterDone
    \/ IngestNotFound
    \/ IngestOpen
    \/ GetColumnNames("main")
    \/ AddColumn("main")
    \/ ReloadSchemaCache("main")
    \/ Sleep("main")
    \/ RpcRaises("main")
    \/ BuildRows
    \/ EnsureRaised
    \/ UpsertOk
    \/ UpsertErrorResponse
    \/ UpsertRaises
    \/ IngestReturn

SpecImport == InitImport /\ [][NextImport]_vars

-----------------------------------------------------------------------------
(* quarter_range on its own: main with two arguments, from the parsing of  *)
(* the two strings to the list of quarters or the exit.                    *)

RangeYears ==
    LET first == parse_quarter(Q4)[1] IN first..(first + MaxYearSpan)

RangeArgs ==
    {QuarterStr(y, q) : y \in RangeYears, q \in 1..4} \cup {BadQuarter}

InitRange ==
    /\ pc = "range"
    /\ imports = 0
    /\ faults = 0
    /\ env = GoodEnv
    /\ args = <<>>
    /\ quarters = <<>>
    /\ qi = 0
    /\ cur = NoCur
    /\ archive = NoArchive
    /\ tmp = {}
    /\ fi = 0
    /\ headers = <<>>
    /\ rows = <<>>
    /\ bi = 0
    /\ errors = 0
    /\ total_rows = 0
    /\ total = 0
    /\ rc = [p \in Procs |-> Idle]
    /\ schema = [t \in Tables |-> BaseSchema]
    /\ cache = [t \in Tables |-> DOMAIN BaseSchema]
    /\ table = [t \in Tables |-> <<>>]
    /\ calls = <<>>
    /\ sent = <<>>
    /\ failed = {}
    /\ ingested = [t \in Tables |-> {}]
    /\ seen = [t \in Tables |-> {}]
    /\ last = [t \in Tables |-> NoIngest]
    /\ prev = [t \in Tables |-> NoIngest]
    /\ \E s \in RangeArgs, e \in RangeArgs :
          probe = [start |-> s, end |-> e, out |-> <<>>, exited |-> FALSE,
                   done |-> FALSE]

\* main, lines 327-329, and quarter_range: sys.exit where a string does not
\* parse or the list comes out empty
RangeProbe ==
    /\ pc = "range"
    /\ ~probe.done
    /\ probe' =
          IF /\ QuarterMatches(probe.start) /\ QuarterMatches(probe.end)
             /\ quarter_range(probe.start, probe.end) # <<>>
          THEN [probe EXCEPT !.out = quarter_range(probe.start, probe.end),
                             !.done = TRUE]
          ELSE [probe EXCEPT !.exited = TRUE, !.done = TRUE]
    /\ UNCHANGED <<pc, imports, faults, mainLocals, quarterLocals, tmp, fileLocals,
                   rc, backend, history>>

NextRange == RangeProbe

SpecRange == InitRange /\ [][NextRange]_vars

-----------------------------------------------------------------------------
(* The batch loop of ingest_file on its own: a bounded list of rows is cut *)
(* into the batches that are submitted, turn by turn.                      *)

BatchRows == {[cu_number |-> <<c>>] : c \in {"1", "2"}}

BatchInputs == UNION {[1..n -> BatchRows] : n \in 0..MaxRows}

InitBatch ==
    /\ pc = "batch"
    /\ imports = 0
    /\ faults = 0
    /\ env = GoodEnv
    /\ args = <<>>
    /\ quarters = <<>>
    /\ qi = 0
    /\ cur = NoCur
    /\ archive = NoArchive
    /\ tmp = {}
    /\ fi = 0
    /\ headers = <<>>
    /\ rows \in BatchInputs
    /\ bi = 0
    /\ errors = 0
    /\ total_rows = 0
    /\ total = 0
    /\ rc = [p \in Procs |-> Idle]
    /\ schema = [t \in Tables |-> BaseSchema]
    /\ cache = [t \in Tables |-> DOMAIN BaseSchema]
    /\ table = [t \in Tables |-> <<>>]
    /\ calls = <<>>
    /\ sent = <<>>
    /\ failed = {}
    /\ ingested = [t \in Tables |-> {}]
    /\ seen = [t \in Tables |-> {}]
    /\ last = [t \in Tables |-> NoIngest]
    /\ prev = [t \in Tables |-> NoIngest]
    /\ probe = [out |-> <<>>, done |-> FALSE]

\* lines 264-265: one turn of the loop; the batch is kept in probe.out
TakeBatch ==
    /\ pc = "batch"
    /\ bi < NumBatches(rows)
    /\ probe' = [probe EXCEPT !.out = Append(@, Batch(rows, bi))]
    /\ bi' = bi + 1
    /\ sent' = Append(sent, bi)
    /\ UNCHANGED <<pc, imports, faults, mainLocals, quarterLocals, tmp, headers,
                   rows, errors, rc, backend, calls, failed, ingested, seen,
                   last, prev>>

\* the loop ends
BatchesDone ==
    /\ pc = "batch"
    /\ bi >= NumBatches(rows)
    /\ ~probe.done
    /\ probe' = [probe EXCEPT !.done = TRUE]
    /\ UNCHANGED <<pc, imports, faults, mainLocals, quarterLocals, tmp, fileLocals,
                   rc, backend, history>>

NextBatch == TakeBatch \/ BatchesDone

SpecBatch == InitBatch /\ [][NextBatch]_vars

-----------------------------------------------------------------------------
(* Properties *)

Key(r) == <<r["cu_number"], r["year"], r["quarter"]>>

SamePeriodFile(a, b) ==
    /\ a.file = b.file
    /\ a.year = b.year
    /\ a.quarter = b.quarter

\* C1: when a file has been ingested for a period without a batch failure
\* and the next ingestion into that table is the same file for the same
\* period, again without a batch failure, the table is after the second
\* ingestion exactly what it was after the first: same rows, same count,
\* same values.
C1_ReingestIsIdempotent ==
    \A t \in Tables :
        (last[t].ok /\ prev[t].ok /\ SamePeriodFile(last[t], prev[t]))
            => last[t].stored = prev[t].stored

\* a file with a repeated institution was ingested twice in a row for one
\* period, both times without a failure, and left rows behind
C1_Witness ==
    \E t \in Tables :
        /\ last[t].ok /\ prev[t].ok /\ SamePeriodFile(last[t], prev[t])
        /\ last[t].file = FileB
        /\ Len(last[t].stored) = 2

Unique(stored) ==
    \A i, j \in 1..Len(stored) : Key(stored[i]) = Key(stored[j]) => i = j

KeysOf(stored) == {Key(stored[i]) : i \in 1..Len(stored)}

\* the last row of a batch that has key k
LastWithKey(batch, k) ==
    batch[CHOOSE i \in 1..Len(batch) :
            /\ Key(batch[i]) = k
            /\ \A j \in 1..Len(batch) : Key(batch[j]) = k => j <= i]

\* the step stored a batch of the current file
BatchStored == pc = "upsert" /\ sent' # sent /\ failed' = failed

\* C2: every table holds at most one row per (cu_number, year, quarter), and
\* a stored batch adds a row only for a key the table did not hold: the
\* rows whose key it held are overwritten in place, and afterwards the row
\* of each key of the batch holds the batch's (last) values for that key.
C2_OneRowPerKey ==
    [][\A t \in Tables :
          \/ table'[t] = table[t]
          \/ /\ Unique(table'[t])
             /\ BatchStored /\ t = CurTable =>
                   /\ Len(table'[t]) = Len(table[t])
                        + Cardinality(KeysOf(Batch(rows, bi)) \ KeysOf(table[t]))
                   /\ \A i \in 1..Len(table[t]) :
                         Key(table'[t][i]) = Key(table[t][i])
                   /\ \A k \in KeysOf(Batch(rows, bi)) :
                         LET r == LastWithKey(Batch(rows, bi), k)
                             s == CHOOSE x \in Range(table'[t]) : Key(x) = k
                         IN  \A c \in DOMAIN r : s[c] = r[c]
       ]_vars

\* a file that names institution 1 twice was stored as two rows, over rows
\* that an earlier ingestion of the period had left
C2_Witness ==
    \E t \in Tables :
        /\ last[t].file = FileB /\ last[t].ok
        /\ prev[t].file = FileA /\ prev[t].ok
        /\ last[t].year = prev[t].year /\ last[t].quarter = prev[t].quarter
        /\ Len(table[t]) = 2
        /\ Len(prev[t].stored) = 2

ColumnTypes(t) == {<<c, schema[t][c]>> : c \in DOMAIN schema[t]}

\* C3: no step removes or retypes a column of a table, and after every step
\* each table has a column for every non-reserved header of every ingestion
\* into it that has completed.
C3_SchemaMonotone ==
    [][\A t \in Tables :
          /\ ColumnTypes(t) \subseteq ColumnTypes(t)'
          /\ (ingested'[t] \ KEY_COLUMNS) \subseteq DOMAIN schema'[t]
       ]_vars

\* two files with different headers have been ingested into one table
C3_Witness ==
    \E t \in Tables :
        /\ last[t].file = FileB /\ prev[t].file = FileA
        /\ Range(FileA.headers) \cup Range(FileB.headers) \subseteq ingested[t]
        /\ "NEW_FIELD" \in DOMAIN schema[t]
        /\ "cu_number" \in DOMAIN schema[t]

Rank(c) ==
    CASE c = "list" -> 0
      [] c = "add" -> 1
      [] c = "reload" -> 2
      [] c = "upsert" -> 3
      [] c = "raise" -> 4

Count(what) == Cardinality({i \in 1..Len(calls) : calls[i] = what})

\* C4: the backend calls of one file come in the order list, add_column...,
\* reload, upsert...: the cache is reloaded at most once, only after an
\* add_column call has been made for every missing header, and no batch is
\* written before ensure_columns has returned, having reloaded the cache
\* exactly once if it added a column and not at all otherwise.
C4_AddReloadWrite ==
    /\ \A i, j \in 1..Len(calls) : i < j => Rank(calls[i]) <= Rank(calls[j])
    /\ Count("list") <= 1
    /\ Count("reload") <= 1
    /\ Count("add") <= Len(rc["main"].new_cols)
    /\ Count("reload") = 1 =>
          Count("add") = Len(rc["main"].new_cols) /\ Count("add") >= 1
    /\ (rc["main"].pc = "returned" \/ Count("upsert") >= 1) =>
          /\ Count("list") = 1
          /\ Count("add") = Len(rc["main"].new_cols)
          /\ Count("reload") = (IF Count("add") >= 1 THEN 1 ELSE 0)
    /\ Count("upsert") >= 1 => pc \in {"upsert", "file", "loop", "done", "crashed",
                                        "import_quarter", "exit"}
    /\ pc = "ensure" => Count("upsert") = 0

\* a file's new column was added, the cache reloaded, and two batches written
C4_Witness == calls = <<"list", "add", "reload", "upsert", "upsert">>


\* a field of the record that is absent, empty or whitespace only
Blank(v) == v = None \/ strip(v) = <<>>

IdVariants == {"CU_NUMBER", "CU_Number"}

\* C5: a record is dropped exactly when its institution identifier is blank
\* after trimming in both header variants; a record with a non-blank value
\* in either variant is kept, with that value trimmed as its cu_number.
C5_DroppedIffBlankInEveryVariant ==
    probe.done =>
        LET r == probe.record
            nonblank == {h \in IdVariants : ~Blank(Get(r, h))}
        IN  /\ probe.out = <<>> <=> nonblank = {}
            /\ probe.out # <<>> =>
                  \E h \in nonblank : probe.out[1]["cu_number"] = strip(r[h])

\* C6: in a projected row, the value under every header that is not a
\* reserved column is the record's value itself, except that the empty
\* string has become null.
C6_VerbatimPassThrough ==
    (probe.done /\ probe.out # <<>>) =>
        \A h \in Range(probe.headers) \ KEY_COLUMNS :
            probe.out[1][h] = IF probe.record[h] = <<>> THEN None
                              ELSE probe.record[h]

\* a kept record whose account field is text with a leading blank, and
\* whose row holds it as it was
C6_Witness ==
    /\ probe.done
    /\ probe.out # <<>>
    /\ "ACCT_010" \in DOMAIN probe.record
    /\ probe.record["ACCT_010"] = <<" ", "7">>
    /\ probe.out[1]["ACCT_010"] = <<" ", "7">>
    /\ probe.record["CU_Number"] = <<>>

AllBatches(rs) == [b \in 1..NumBatches(rs) |-> b - 1]

\* C7: once the writing of a file is over and one of its batches has failed,
\* every batch of the file has been submitted, in order.
C7_FailedBatchDoesNotStopTheOthers ==
    (failed # {} /\ pc # "upsert") => sent = AllBatches(rows)

SchemaCallRaised ==
    /\ Len(calls) >= 2
    /\ calls[Len(calls)] = "raise"
    /\ calls[Len(calls) - 1] \in {"list", "add", "reload"}

\* C8: after a schema call of a file's reconciliation has been rejected, no
\* row of that file is written and the run goes on: it has not ended before
\* the remaining files and quarters were processed.
C8_SchemaFailureSkipsOnlyTheFile ==
    SchemaCallRaised =>
        /\ Count("upsert") = 0
        /\ pc \notin {"crashed", "exit"}

AllReturned == \A p \in Procs : rc[p].pc = "returned"

\* C9: whatever the interleaving of two reconciliations of one table, none
\* of them fails, each can go on until it has returned, and when both have
\* returned the table's columns are those it had plus the non-reserved
\* headers of both, and the schema cache knows them all.
C9_ConcurrentReconcile ==
    /\ \A p \in Procs : rc[p].pc # "raised"
    /\ AllReturned \/ ENABLED NextRace
    /\ AllReturned =>
          /\ DOMAIN schema[RaceTable] =
                DOMAIN RaceSchema
                  \cup (UNION {Range(rc[p].hdrs) : p \in Procs} \ KEY_COLUMNS)
          /\ \A c \in DOMAIN schema[RaceTable] : schema[RaceTable][c] = "text"
                \/ c \in KEY_COLUMNS
          /\ cache[RaceTable] = DOMAIN schema[RaceTable]

\* both runs found NEW_FIELD missing and both called add_column for it
C9_Witness ==
    /\ AllReturned
    /\ \A p \in Procs : "NEW_FIELD" \in Range(rc[p].new_cols)
    /\ rc["main"].hdrs # rc["other"].hdrs

PeriodOf(r) == <<r["year"], r["quarter"]>>

\* C10: a step leaves every stored row of a period other than the one being
\* ingested as it was, a column added by the step being null in it; a stored
\* batch leaves its values in the rows of the period being ingested; and a
\* row never holds a value in a column that no file of its own period had
\* as a header.
C10_OtherPeriodsUntouched ==
    [][\A t \in Tables :
        table'[t] # table[t] =>
          /\ Len(table'[t]) >= Len(table[t])
          /\ \A i \in 1..Len(table[t]) :
                PeriodOf(table[t][i]) # <<cur.year, cur.quarter>> =>
                    /\ \A c \in DOMAIN table[t][i] :
                          table'[t][i][c] = table[t][i][c]
                    /\ \A c \in DOMAIN table'[t][i] \ DOMAIN table[t][i] :
                          table'[t][i][c] = None
          /\ \A i \in 1..Len(table'[t]) :
                /\ DOMAIN table'[t][i] = DOMAIN schema'[t]
                /\ \A c \in DOMAIN table'[t][i] \ KEY_COLUMNS :
                      table'[t][i][c] # None =>
                          <<table'[t][i]["year"], table'[t][i]["quarter"], c>>
                              \in seen'[t]
          /\ (BatchStored /\ t = CurTable) =>
                \A k \in KeysOf(Batch(rows, bi)) :
                    \E x \in Range(table'[t]) :
                        /\ Key(x) = k
                        /\ PeriodOf(x) = <<cur.year, cur.quarter>>
                        /\ \A c \in DOMAIN LastWithKey(Batch(rows, bi), k) :
                              x[c] = LastWithKey(Batch(rows, bi), k)[c]
       ]_vars

\* the second period's file brought NEW_FIELD: the first period's rows have
\* null in it and kept their values, the second period's rows have values
C10_Witness ==
    \E i, j \in 1..Len(table["bronze_foicu"]) :
        LET a == table["bronze_foicu"][i]
            b == table["bronze_foicu"][j]
        IN  /\ "NEW_FIELD" \in DOMAIN a
            /\ PeriodOf(a) = <<2024, 4>> /\ PeriodOf(b) = <<2025, 1>>
            /\ a["NEW_FIELD"] = None /\ a["ACCT_010"] = <<"1", "0">>
            /\ b["NEW_FIELD"] = <<"8">>
            /\ \E k \in 1..Len(table["bronze_foicu"]) :
                  /\ table["bronze_foicu"][k]["cu_number"] = b["cu_number"]
                  /\ PeriodOf(table["bronze_foicu"][k]) = <<2024, 4>>
                  /\ table["bronze_foicu"][k]["NEW_FIELD"] = None
            /\ pc = "done"

\* C11 as stated: whichever known source file the extracted archive lacks,
\* the period goes on: the run does not stop for it.
C11_AnyAbsentFileIsSkipped ==
    \A f \in Range(FileOrder) :
        (cur # NoCur /\ ~archive[f].present) => pc # "exit"

\* C11, amended: when a known source file other than FOICU.txt is absent
\* from the period's archive, its ingestion is one step that returns zero
\* rows: no backend call, no write, no error counted, nothing added to the
\* period's rows, and the next file is taken up; when the period returns,
\* every file the archive holds has been ingested.  An archive without
\* FOICU.txt ends the run before any file is ingested.
C11_AbsentFileIsSkipped ==
    [][/\ (/\ pc = "file"
           /\ fi <= Len(FileOrder)
           /\ ~archive[FileOrder[fi]].present)
          => /\ FileOrder[fi] # "FOICU.txt"
             /\ pc' = "file" /\ fi' = fi + 1
             /\ total_rows' = total_rows
             /\ errors' = errors
             /\ backend' = backend
             /\ calls' = calls /\ sent' = sent /\ failed' = failed
             /\ faults' = faults
       /\ (pc = "file" /\ pc' = "loop")
          => \A f \in Range(FileOrder) :
                archive[f].present
                    => /\ last'[SOURCE_FILES[f]].file = archive[f]
                       /\ last'[SOURCE_FILES[f]].year = cur.year
                       /\ last'[SOURCE_FILES[f]].quarter = cur.quarter
       /\ (pc = "import_quarter" /\ pc' # "crashed"
              /\ ~archive'["FOICU.txt"].present)
          => pc' = "exit" /\ backend' = backend /\ calls' = calls
      ]_vars

\* a period whose archive lacks FS220.txt has returned, and the file after
\* it, FS220A.txt, was ingested
C11_Witness ==
    /\ pc = "loop"
    /\ archive["FOICU.txt"].present
    /\ ~archive["FS220.txt"].present
    /\ archive["FS220A.txt"] = FileD
    /\ table["bronze_fs220"] = <<>>
    /\ schema["bronze_fs220"] = BaseSchema
    /\ Len(table["bronze_fs220a"]) = 1
    /\ last["bronze_fs220a"].file = FileD
    /\ total_rows = Len(table["bronze_foicu"]) + 1

\* C12: the temporary directory made for a period is removed on every way
\* out of the period: once the period has returned (pc = "loop") or the run
\* has ended, whether after success, after a failure while a file is
\* ingested, or after a failure of the download, the extraction or the
\* resolution of the data directory, no temporary directory is left.
C12_TempDirAlwaysReleased ==
    (Stopped \/ pc = "loop") => tmp = {}

\* the run has ended with the traceback of a download or extraction failure
\* (the last backend call of the run, if any, did not raise)
DownloadFailed ==
    /\ pc = "crashed"
    /\ calls = <<>> \/ calls[Len(calls)] # "raise"

\* C13: in a run over several periods, a failure to acquire the archive of
\* a period that is not the last does not end the run: the periods after it
\* are still to be processed.
C13_AcquisitionFailureAbortsOnlyThePeriod ==
    ~(DownloadFailed /\ Len(quarters) > 1 /\ qi < Len(quarters))

\* the rows of rs that are in a batch whose number is not in bad
RowsInBatchesNotIn(rs, bad) ==
    Cardinality({i \in 1..Len(rs) : ((i - 1) \div BATCH_SIZE) \notin bad})

\* C14: the rows a file's ingestion returns as imported are the rows of the
\* batches that did not fail: when the first file of a period has returned,
\* the period's row count is the number of its projected rows outside the
\* failed batches.
C14_FailedBatchRowsAreNotCounted ==
    (pc = "file" /\ fi = 2) => total_rows = RowsInBatchesNotIn(rows, failed)

\* the place of a quarter string on the line of all quarters
QuarterIndex(s) == 4 * parse_quarter(s)[1] + (parse_quarter(s)[2] - 1)

\* C15: for a start not after the end, quarter_range returns every quarter
\* from start to end, both included, each the successor of the one before
\* (Q4 followed by Q1 of the next year), so in increasing order with no gap
\* and no repeat, after finitely many turns of its loop; a start after the
\* end is rejected, not answered with an empty list.
C15_QuarterRangeConsecutive ==
    (/\ pc = "range" /\ probe.done
     /\ QuarterMatches(probe.start) /\ QuarterMatches(probe.end))
    => LET first == QuarterIndex(probe.start)
           final == QuarterIndex(probe.end)
       IN  IF first <= final
           THEN /\ ~probe.exited
                /\ Len(probe.out) = final - first + 1
                /\ probe.out[1] = probe.start
                /\ probe.out[Len(probe.out)] = probe.end
                /\ \A i \in 1..Len(probe.out) :
                      probe.out[i] = QuarterStr((first + i - 1) \div 4,
                                                ((first + i - 1) % 4) + 1)
           ELSE probe.exited /\ probe.out = <<>>

\* 2024-Q3 to 2025-Q1 has come out as three quarters, over the year's end
C15_Witness ==
    /\ pc = "range" /\ probe.done
    /\ probe.start = QuarterStr(2024, 3)
    /\ probe.end = Q1
    /\ probe.out = <<QuarterStr(2024, 3), Q4, Q1>>

\* C16: the columns of a projected row are exactly the six reserved
\* metadata columns and the file's headers that are not reserved key
\* columns; a header that is a reserved key column is not among the columns
\* to add to the table, and the row's value under that name is the one the
\* import gives it, not the file's.
C16_RowColumnsAndReservedNames ==
    (pc = "project" /\ probe.done)
    => /\ NewCols(probe.headers, {}) =
            SelectSeq(probe.headers, LAMBDA h : h \notin KEY_COLUMNS)
       /\ \A i \in 1..Len(probe.out) :
            LET row == probe.out[i]
            IN  /\ DOMAIN row =
                     {"cu_number", "cycle_date", "year", "quarter", "period",
                      "source_url"}
                        \cup (Range(probe.headers) \ KEY_COLUMNS)
                /\ row["cu_number"] = cu_number_of(probe.record)
                /\ row["cycle_date"] = cycle_date_of(probe.record)
                /\ row["year"] = cur.year
                /\ row["quarter"] = cur.quarter
                /\ row["period"] = cur.period
                /\ row["source_url"] = cur.source_url

\* a record with a text under the header "period" has been projected, and
\* the row's period is the import's
C16_Witness ==
    /\ pc = "project" /\ probe.done
    /\ "period" \in Range(probe.headers)
    /\ probe.record["period"] = <<"7">>
    /\ Len(probe.out) = 1
    /\ probe.out[1]["period"] = Q1
    /\ "period" \notin Range(NewCols(probe.headers, {}))

\* C17: when the listing finds every header of the file among the table's
\* columns or the reserved names, ensure_columns returns with that one call:
\* no add_text_column, no reload of the schema cache, no sleep, and the
\* backend as it was; when headers are missing, each add_text_column is for
\* the first header, in header order, that is still missing.
C17_ReconcileOnlyWhatIsMissing ==
    [][LET r == rc["main"]
           r2 == rc'["main"]
           missing == SelectSeq(r.hdrs,
                        LAMBDA h : h \notin DOMAIN schema[r.table]
                                     /\ h \notin KEY_COLUMNS)
       IN  /\ (r.pc = "list" /\ r2.pc \notin {"list", "raised"})
              => IF missing = <<>>
                 THEN /\ r2.pc = "returned"
                      /\ backend' = backend
                      /\ calls' = <<"list">>
                 ELSE r2.pc = "add" /\ r2.new_cols = missing
           /\ (r.pc = "add" /\ r2.pc \notin {"raised"} /\ r2 # r)
              => /\ missing # <<>>
                 /\ schema'[r.table] = AddTextColumn(schema[r.table], missing[1])
           /\ r2.pc \in {"add", "reload", "sleep"} => r2.new_cols # <<>>
           /\ (pc = "ensure" /\ pc' = "upsert" /\ r.new_cols = <<>>)
              => calls = <<"list">>
      ]_vars

\* a file all of whose headers the table already has is about to be
\* written after the listing alone
C17_Witness ==
    /\ pc = "upsert" /\ bi = 0
    /\ calls = <<"list">>
    /\ "ACCT_010" \in Range(headers)
    /\ rc["main"].new_cols = <<>>

RECURSIVE Flatten(_)
\* the batches put one after the other
Flatten(bs) == IF bs = <<>> THEN <<>> ELSE Head(bs) \o Flatten(Tail(bs))

\* C18: the batches submitted for a file, put one after the other in the
\* order they were submitted, are the projected rows from the first on (all
\* of them once the loop has ended): no row left out, repeated or moved;
\* every batch has from 1 to BATCH_SIZE rows and only the last may have
\* fewer than BATCH_SIZE; no batch is submitted for an empty list.
C18_BatchesPartitionTheRows ==
    pc = "batch"
    => LET out == probe.out
       IN  /\ Len(Flatten(out)) <= Len(rows)
           /\ Flatten(out) = SubSeq(rows, 1, Len(Flatten(out)))
           /\ \A k \in 1..Len(out) : Len(out[k]) \in 1..BATCH_SIZE
           /\ \A k \in 1..(Len(out) - 1) : Len(out[k]) = BATCH_SIZE
           /\ probe.done => Flatten(out) = rows
           /\ rows = <<>> => out = <<>>

\* five rows have gone out as two full batches and a last batch of one
C18_Witness ==
    /\ pc = "batch" /\ probe.done
    /\ Len(rows) = 5
    /\ Len(probe.out) = 3
    /\ Len(probe.out[3]) = 1
    /\ probe.out[3][1] = rows[5]

\* the run's URL and key are set and the URL names a project of the list
OnAllowList ==
    /\ env.url # <<>>
    /\ env.key # <<>>
    /\ \E ref \in {"jhlkpogfkytfedqupytv", "ckpihayqxwplgxdmijyp"} :
          ref \in Range(env.url)

\* C19: the run gets past load_env only with a destination on the allow
\* list: wherever it reads its arguments, imports a period or has made a
\* backend call (listing, add_text_column, reload, upsert), the check has
\* passed; a run whose URL is not on the list, or whose URL or key is
\* missing, has stopped with no argument read, no period started and no
\* call made.
C19_AllowListFailsClosed ==
    /\ pc \in {"args", "loop", "import_quarter", "file", "ensure", "upsert",
               "done", "crashed"} => OnAllowList
    /\ calls # <<>> => OnAllowList
    /\ (pc \notin {"idle", "load_env"} /\ ~OnAllowList)
       => /\ pc = "exit"
          /\ args = <<>> /\ quarters = <<>> /\ qi = 0
          /\ cur = NoCur /\ archive = NoArchive
          /\ calls = <<>> /\ sent = <<>>

\* a run with the URL of a project that is not on the list has stopped, in
\* front of tables an earlier, allowed run had written
C19_Witness ==
    /\ pc = "exit"
    /\ env.url # <<>> /\ env.key # <<>>
    /\ ~OnAllowList
    /\ table["bronze_foicu"] # <<>>
    /\ table["bronze_foicu"] = last["bronze_foicu"].stored

\* a year written with four digits
YYYY(y) ==
    <<DigitChars[((y \div 1000) % 10) + 1], DigitChars[((y \div 100) % 10) + 1],
      DigitChars[((y \div 10) % 10) + 1], DigitChars[(y % 10) + 1]>>

\* the period metadata of row r belong together
PeriodConsistent(r) ==
    /\ r["quarter"] \in 1..4
    /\ r["period"] = YYYY(r["year"]) \o <<"-", "Q">> \o IntStr(r["quarter"])
    /\ r["source_url"] = quarter_url(r["year"], r["quarter"])

\* C20: every row projected or stored by import_quarter has a quarter from
\* 1 to 4, the period string YYYY-QN of its own year and quarter and the
\* archive URL of that year and quarter; the rows projected for a period
\* all carry that period's four values, and any two stored rows of the same
\* year and quarter have the same period and source_url.  Stated of every
\* step that projects rows or changes a table.
C20_PeriodMetadataConsistent ==
    [][/\ rows' # rows
          => \A i \in 1..Len(rows') :
                /\ PeriodConsistent(rows'[i])
                /\ rows'[i]["year"] = cur'.year
                /\ rows'[i]["quarter"] = cur'.quarter
                /\ rows'[i]["period"] = cur'.period
                /\ rows'[i]["source_url"] = cur'.source_url
       /\ \A t \in Tables :
             table'[t] # table[t]
             => \A i \in 1..Len(table'[t]) :
                   /\ PeriodConsistent(table'[t][i])
                   /\ \A u \in Tables :
                         \A j \in 1..Len(table'[u]) :
                             (/\ table'[u][j]["year"] = table'[t][i]["year"]
                              /\ table'[u][j]["quarter"] =
                                    table'[t][i]["quarter"])
                             => /\ table'[u][j]["period"] =
                                      table'[t][i]["period"]
                                /\ table'[u][j]["source_url"] =
                                      table'[t][i]["source_url"]
      ]_vars

\* rows of 2024-Q4 and of 2025-Q1 are stored side by side, in two tables
C20_Witness ==
    /\ \E i, j \in 1..Len(table["bronze_foicu"]) :
          /\ table["bronze_foicu"][i]["period"] = Q4
          /\ table["bronze_foicu"][i]["year"] = 2024
          /\ table["bronze_foicu"][j]["period"] = Q1
          /\ table["bronze_foicu"][j]["quarter"] = 1
    /\ \E k \in 1..Len(table["bronze_fs220"]) :
          table["bronze_fs220"][k]["source_url"] = quarter_url(2025, 1)

====
